---- MODULE Spec2Model ----
(***************************************************************************)
(* Model of the cron scheduler of src/scheduler/task_scheduler.py:         *)
(* ExtendedCronTab (expression parser and matcher), CronJob (one polling   *)
(* loop per job, run as an asyncio task) and TaskScheduler (the registry). *)
(*                                                                         *)
(* Text is modelled as a sequence of one-character strings, so that        *)
(* str.split, the `in` tests and int() are computed as the code computes   *)
(* them.  Time is counted in ticks of half a second from Epoch.            *)
(***************************************************************************)
EXTENDS Integers, Sequences, FiniteSets, TLC

(***************************************************************************)
(* Text helpers: str.split(), str.split(sep), `ch in s`, int(s).           *)
(***************************************************************************)
Digits == <<"0", "1", "2", "3", "4", "5", "6", "7", "8", "9">>

IsDigit(c) == \E i \in 1..10 : Digits[i] = c

DigitVal(c) == (CHOOSE i \in 1..10 : Digits[i] = c) - 1

Contains(s, ch) == \E i \in 1..Len(s) : s[i] = ch

\* str.split(): split on runs of whitespace, no empty tokens
RECURSIVE SplitWsFrom(_, _, _, _)
SplitWsFrom(s, i, cur, acc) ==
    IF i > Len(s)
    THEN (IF cur = <<>> THEN acc ELSE Append(acc, cur))
    ELSE IF s[i] = " "
         THEN SplitWsFrom(s, i + 1, <<>>, IF cur = <<>> THEN acc ELSE Append(acc, cur))
         ELSE SplitWsFrom(s, i + 1, Append(cur, s[i]), acc)

SplitWs(s) == SplitWsFrom(s, 1, <<>>, <<>>)

\* str.split(sep): split on every occurrence of sep, empty tokens kept
RECURSIVE SplitOnFrom(_, _, _, _, _)
SplitOnFrom(s, sep, i, cur, acc) ==
    IF i > Len(s)
    THEN Append(acc, cur)
    ELSE IF s[i] = sep
         THEN SplitOnFrom(s, sep, i + 1, <<>>, Append(acc, cur))
         ELSE SplitOnFrom(s, sep, i + 1, Append(cur, s[i]), acc)

SplitOn(s, sep) == SplitOnFrom(s, sep, 1, <<>>, <<>>)

RECURSIVE DigitsVal(_, _, _)
DigitsVal(s, i, acc) ==
    IF i > Len(s) THEN acc ELSE DigitsVal(s, i + 1, 10 * acc + DigitVal(s[i]))

AllDigits(s) == Len(s) > 0 /\ \A i \in 1..Len(s) : IsDigit(s[i])

\* int(s) over the alphabet of cron fields: an optional minus sign and one
\* or more decimal digits; anything else raises ValueError (ok = FALSE)
ToInt(s) ==
    IF AllDigits(s)
    THEN [ok |-> TRUE, val |-> DigitsVal(s, 1, 0)]
    ELSE IF Len(s) > 1 /\ s[1] = "-" /\ AllDigits(Tail(s))
         THEN [ok |-> TRUE, val |-> 0 - DigitsVal(Tail(s), 1, 0)]
         ELSE [ok |-> FALSE, val |-> 0]

(***************************************************************************)
(* ExtendedCronTab                                                         *)
(***************************************************************************)
Raise == [ok |-> FALSE, values |-> {}]

Values(S) == [ok |-> TRUE, values |-> S]

\* range(lo, hi_exclusive, step) for step > 0
PyRange(lo, hi, step) == {v \in lo..(hi - 1) : (v - lo) % step = 0}

\* the list branch: every item must be an int within the bounds
ParseList(parts, min_val, max_val) ==
    IF \A i \in 1..Len(parts) :
          /\ ToInt(parts[i]).ok
          /\ min_val <= ToInt(parts[i]).val
          /\ ToInt(parts[i]).val <= max_val
    THEN Values({ToInt(parts[i]).val : i \in 1..Len(parts)})
    ELSE Raise

\* mutant: the values of a step field are counted from 0, not from the
\* minimum of the field
ParseStep_FromZero(field, min_val, max_val) ==
    LET parts == SplitOn(field, "/")
        step  == ToInt(parts[2])
    IN  IF parts[1] = <<"*">>
        THEN IF ~step.ok \/ step.val = 0
             THEN Raise
             ELSE IF step.val < 0
                  THEN Values({})
                  ELSE Values({v \in PyRange(0, max_val + 1, step.val) : v >= min_val})
        ELSE Raise

ParseStep(field, min_val, max_val) ==
    LET parts == SplitOn(field, "/")
        step  == ToInt(parts[2])
    IN  IF parts[1] = <<"*">>
        THEN IF ~step.ok \/ step.val = 0
             THEN Raise            \* int() or range(.., 0) raises ValueError
             ELSE IF step.val < 0
                  THEN Values({})  \* range with a negative step is empty
                  ELSE Values(PyRange(min_val, max_val + 1, step.val))
        ELSE Raise

ParseRange(field, min_val, max_val) ==
    LET parts  == SplitOn(field, "-")
        start  == ToInt(parts[1])
        end    == ToInt(parts[2])
    IN  IF ~start.ok \/ ~end.ok
        THEN Raise
        ELSE IF start.val < min_val \/ end.val > max_val
             THEN Raise
             ELSE Values(start.val..end.val)

ParseSingle(field, min_val, max_val) ==
    LET num == ToInt(field)
    IN  IF num.ok /\ min_val <= num.val /\ num.val <= max_val
        THEN Values({num.val})
        ELSE Raise

\* ExtendedCronTab._parse_field
ParseField(field, min_val, max_val) ==
    IF field = <<"*">>
    THEN Values(min_val..max_val)
    ELSE IF Contains(field, "/")
         THEN ParseStep(field, min_val, max_val)
         ELSE IF Contains(field, "-")
              THEN ParseRange(field, min_val, max_val)
              ELSE IF Contains(field, ",")
                   THEN ParseList(SplitOn(field, ","), min_val, max_val)
                   ELSE ParseSingle(field, min_val, max_val)

NoCronTab ==
    [ok |-> FALSE, has_seconds |-> FALSE, seconds |-> {}, minutes |-> {},
     hours |-> {}, days |-> {}, months |-> {}, weekdays |-> {}]

\* mutant: an expression without a seconds field is due at every second
ParseExpression_AnySecond(fields, has_seconds) ==
    LET rest == IF has_seconds THEN Tail(fields) ELSE fields
        sec  == IF has_seconds THEN ParseField(fields[1], 0, 59) ELSE Values(0..59)
        min  == ParseField(rest[1], 0, 59)
        hr   == ParseField(rest[2], 0, 23)
        day  == ParseField(rest[3], 1, 31)
        mon  == ParseField(rest[4], 1, 12)
        wd   == ParseField(rest[5], 0, 6)
    IN  IF sec.ok /\ min.ok /\ hr.ok /\ day.ok /\ mon.ok /\ wd.ok
        THEN [ok |-> TRUE, has_seconds |-> has_seconds,
              seconds |-> sec.values, minutes |-> min.values,
              hours |-> hr.values, days |-> day.values,
              months |-> mon.values, weekdays |-> wd.values]
        ELSE NoCronTab

\* ExtendedCronTab._parse_expression, for a field list of length 5 or 6
ParseExpression(fields, has_seconds) ==
    LET rest == IF has_seconds THEN Tail(fields) ELSE fields
        sec  == IF has_seconds THEN ParseField(fields[1], 0, 59) ELSE Values({0})
        min  == ParseField(rest[1], 0, 59)
        hr   == ParseField(rest[2], 0, 23)
        day  == ParseField(rest[3], 1, 31)
        mon  == ParseField(rest[4], 1, 12)
        wd   == ParseField(rest[5], 0, 6)
    IN  IF sec.ok /\ min.ok /\ hr.ok /\ day.ok /\ mon.ok /\ wd.ok
        THEN [ok |-> TRUE, has_seconds |-> has_seconds,
              seconds |-> sec.values, minutes |-> min.values,
              hours |-> hr.values, days |-> day.values,
              months |-> mon.values, weekdays |-> wd.values]
        ELSE NoCronTab

\* mutant: only the lower limit of the field count is tested
ExtendedCronTab_AtLeastFive(cron_expression) ==
    LET fields == SplitWs(cron_expression)
    IN  IF Len(fields) < 5
        THEN NoCronTab
        ELSE ParseExpression(fields, Len(fields) = 6)

\* ExtendedCronTab.__init__: ok = FALSE stands for the ValueError
ExtendedCronTab(cron_expression) ==
    LET fields == SplitWs(cron_expression)
    IN  IF ~(5 <= Len(fields) /\ Len(fields) <= 6)
        THEN NoCronTab
        ELSE ParseExpression(fields, Len(fields) = 6)

(***************************************************************************)
(* Instants.  An instant is a number of ticks since Epoch, 2023-01-01      *)
(* 00:00:00 (a Sunday: datetime.weekday() = 6); DateTime gives the fields  *)
(* the matcher reads from a datetime of the year 2023.                     *)
(***************************************************************************)
TicksPerSecond == 2

EpochWeekday == 6

DaysInMonth == <<31, 28, 31, 30, 31, 30, 31, 31, 30, 31, 30, 31>>

RECURSIVE MonthDay(_, _)
MonthDay(doy, m) ==
    IF doy < DaysInMonth[m]
    THEN [month |-> m, day |-> doy + 1]
    ELSE MonthDay(doy - DaysInMonth[m], m + 1)

DateTime(t) ==
    LET s  == t \div TicksPerSecond
        d  == s \div 86400
        md == MonthDay(d % 365, 1)
    IN  [second  |-> s % 60,
         minute  |-> (s \div 60) % 60,
         hour    |-> (s \div 3600) % 24,
         day     |-> md.day,
         month   |-> md.month,
         weekday |-> (EpochWeekday + d) % 7]

\* mutant: the rule of classic cron, by which a schedule that restricts both
\* the day of the month and the weekday is due when either matches
is_time_to_run_DayOrWeekday(crontab, dt) ==
    /\ dt.second \in crontab.seconds
    /\ dt.minute \in crontab.minutes
    /\ dt.hour \in crontab.hours
    /\ dt.month \in crontab.months
    /\ IF crontab.days # 1..31 /\ crontab.weekdays # 0..6
       THEN dt.day \in crontab.days \/ dt.weekday \in crontab.weekdays
       ELSE dt.day \in crontab.days /\ dt.weekday \in crontab.weekdays

\* ExtendedCronTab.is_time_to_run
is_time_to_run(crontab, dt) ==
    /\ dt.second \in crontab.seconds
    /\ dt.minute \in crontab.minutes
    /\ dt.hour \in crontab.hours
    /\ dt.day \in crontab.days
    /\ dt.month \in crontab.months
    /\ dt.weekday \in crontab.weekdays

(***************************************************************************)
(* CronJob.  A job is a record of the object's fields.  The asyncio tasks  *)
(* start() creates for it are numbered 1, 2, ... in creation order; `task` *)
(* is the number of the one self.task refers to (NoTask for None) and      *)
(* `loops` maps the number of each task that has not ended to its state.   *)
(*                                                                         *)
(* A loop task is "new" (created, first step not yet run), "sleeping" (in  *)
(* asyncio.sleep, with `left` ticks to go) or "callback" (suspended inside *)
(* the awaited callback).  `cancel` says task.cancel() was called and the  *)
(* CancelledError is not yet delivered.  A task ends, and leaves `loops`,  *)
(* when its while condition is false, when the CancelledError of           *)
(* task.cancel() is delivered, or when the callback raises CancelledError: *)
(* CancelledError is a BaseException (Python 3.8 and later), so neither    *)
(* `except Exception` of the class catches it.                             *)
(***************************************************************************)
NoInstant == -1

NoTask == 0

PollTicks == 1

GuardTicks == 2

MaxLoops == 2

MaxClock == 2

NewLoop == [st |-> "new", left |-> 0, cancel |-> FALSE]

Sleeping == [st |-> "sleeping", left |-> PollTicks, cancel |-> FALSE]

InCallback == [st |-> "callback", left |-> 0, cancel |-> FALSE]

SetLoop(job, i, loop) ==
    [job EXCEPT !.loops = [k \in DOMAIN job.loops \cup {i} |->
                              IF k = i THEN loop ELSE job.loops[k]]]

EndLoop(job, i) ==
    [job EXCEPT !.loops = [k \in DOMAIN job.loops \ {i} |-> job.loops[k]]]

\* CronJob.__init__: ok = FALSE stands for the ValueError of the parser
CronJob(name, cron_expression, callback, timezone, oid) ==
    LET crontab == ExtendedCronTab(cron_expression)
    IN  [ok  |-> crontab.ok,
         job |-> [oid |-> oid, name |-> name,
                  cron_expression |-> cron_expression,
                  callback |-> callback, timezone |-> timezone,
                  crontab |-> crontab, running |-> FALSE,
                  task |-> NoTask, last_run |-> NoInstant, loops |-> <<>>]]

\* mutant: start() refuses a job that was started before
CronJob_start_OnceOnly(job) ==
    IF job.running \/ job.task # NoTask
    THEN job
    ELSE SetLoop([job EXCEPT !.running = TRUE, !.task = job.task + 1],
                 job.task + 1, NewLoop)

\* mutant: start() without the test of the running flag
CronJob_start_Always(job) ==
    SetLoop([job EXCEPT !.running = TRUE, !.task = job.task + 1],
            job.task + 1, NewLoop)

\* CronJob.start
CronJob_start(job) ==
    IF job.running
    THEN job
    ELSE SetLoop([job EXCEPT !.running = TRUE, !.task = job.task + 1],
                 job.task + 1, NewLoop)

\* asyncio.Task.cancel(): a no-op on a task that has ended; otherwise a
\* CancelledError is thrown in at the task's suspension point when the event
\* loop next runs it.  A task waiting for its first step or in
\* asyncio.sleep runs no code of the loop body again and counts as ended at
\* once; a task suspended inside the callback stays, with cancel set, until
\* the error is delivered.
TaskCancel(job, i) ==
    IF i \in DOMAIN job.loops
    THEN IF job.loops[i].st = "callback"
         THEN [job EXCEPT !.loops[i].cancel = TRUE]
         ELSE EndLoop(job, i)
    ELSE job

\* mutant: stop() clears the flag and forgets to cancel the loop task
CronJob_stop_NoCancel(job) ==
    IF ~job.running THEN job ELSE [job EXCEPT !.running = FALSE]

\* CronJob.stop
CronJob_stop(job) ==
    IF ~job.running
    THEN job
    ELSE IF job.task # NoTask
         THEN TaskCancel([job EXCEPT !.running = FALSE], job.task)
         ELSE [job EXCEPT !.running = FALSE]

\* mutant: the loop fires whenever the schedule is due, without the guard
ShouldFire_NoGuard(job, now) ==
    is_time_to_run(job.crontab, DateTime(now))

\* mutant: a due instant that passed since the last run is made up for at
\* the next poll
ShouldFire_CatchUp(job, now) ==
    /\ (job.last_run = NoInstant \/ now - job.last_run >= GuardTicks)
    /\ \/ is_time_to_run(job.crontab, DateTime(now))
       \/ /\ job.last_run # NoInstant
          /\ \E t \in (job.last_run + GuardTicks)..now :
                is_time_to_run(job.crontab, DateTime(t))

\* mutant: the guard asks for more than a second since the last run
ShouldFire_StrictGuard(job, now) ==
    /\ is_time_to_run(job.crontab, DateTime(now))
    /\ (job.last_run = NoInstant \/ now - job.last_run > GuardTicks)

\* mutant: the schedule is matched against the wall clock of the job's
\* timezone, one hour ahead of UTC for any label but "UTC"
ShouldFire_LocalTime(job, now) ==
    /\ is_time_to_run(job.crontab,
                      DateTime(IF job.timezone = "UTC"
                               THEN now
                               ELSE now + 3600 * TicksPerSecond))
    /\ (job.last_run = NoInstant \/ now - job.last_run >= GuardTicks)

\* the guard of CronJob._schedule_loop: due, and first run or a second passed
ShouldFire(job, now) ==
    /\ is_time_to_run(job.crontab, DateTime(now))
    /\ (job.last_run = NoInstant \/ now - job.last_run >= GuardTicks)

\* mutant: last_run is assigned after the callback, so that an invocation
\* that suspends has not stamped it yet
LoopPass_StampAfter(job, i, now, suspends) ==
    IF ~job.running
    THEN EndLoop(job, i)
    ELSE IF ShouldFire(job, now)
         THEN IF suspends
              THEN SetLoop(job, i, InCallback)
              ELSE SetLoop([job EXCEPT !.last_run = now], i, Sleeping)
         ELSE SetLoop(job, i, Sleeping)

\* One pass of CronJob._schedule_loop by loop i, from the while test to the
\* next suspension.  `suspends` says whether the callback, when invoked,
\* suspends (the invocation stays in flight) or ends before suspending
\* (a return or an Exception, which _run_job traps).
LoopPass(job, i, now, suspends) ==
    IF ~job.running
    THEN EndLoop(job, i)
    ELSE IF ShouldFire(job, now)
         THEN SetLoop([job EXCEPT !.last_run = now], i,
                      IF suspends THEN InCallback ELSE Sleeping)
         ELSE SetLoop(job, i, Sleeping)

\* the callback returns or raises an Exception: _run_job returns and the
\* loop goes on to asyncio.sleep(0.5)
CallbackEnds(job, i) == SetLoop(job, i, Sleeping)

\* mutant: the Exception of the callback is not trapped and ends the loop
CallbackFails_EndsLoop(job, i) == EndLoop(job, i)

\* the callback raises an Exception: the handler of _run_job logs it,
\* _run_job returns and the loop goes on to asyncio.sleep(0.5)
CallbackFails(job, i) == SetLoop(job, i, Sleeping)

\* the callback raises CancelledError: it passes both handlers, the task ends
CallbackAborts(job, i) == EndLoop(job, i)

\* asyncio.sleep(1) of the handler of _schedule_loop, in ticks
BackoffTicks == TicksPerSecond

Backoff == [st |-> "sleeping", left |-> BackoffTicks, cancel |-> FALSE]

\* mutant: the Exception raised in the pass is not caught and ends the loop
PollFails_EndsLoop(job, i) == EndLoop(job, i)

\* a statement of the pass other than the callback raises an Exception: the
\* handler of _schedule_loop logs it and the loop goes on to
\* asyncio.sleep(1); no field of the job is assigned
PollFails(job, i) == SetLoop(job, i, Backoff)

\* mutant: the cancellation lets the invocation complete and takes effect
\* only at the loop's next pause
CancelDelivered_AtPause(job, i) ==
    SetLoop(job, i, [Sleeping EXCEPT !.cancel = TRUE])

\* the CancelledError of task.cancel() is thrown in at the await inside the
\* callback: the invocation is abandoned there and the task ends
CancelDelivered(job, i) == EndLoop(job, i)

\* time passes for the sleeping loops of a job
Elapse(job) ==
    [job EXCEPT !.loops = [k \in DOMAIN job.loops |->
        IF job.loops[k].left > 0
        THEN [job.loops[k] EXCEPT !.left = @ - 1]
        ELSE job.loops[k]]]

InFlight(job) == {i \in DOMAIN job.loops : job.loops[i].st = "callback"}

(***************************************************************************)
(* TaskScheduler: self is [jobs, running], jobs a function from the        *)
(* registered names.  Each operation returns the new self, what the caller *)
(* observes ("returned" or "raised") and the highest level it logged.      *)
(***************************************************************************)
\* TaskScheduler._initialize
Initialize == [jobs |-> <<>>, running |-> FALSE]

Put(jobs, name, job) ==
    [n \in DOMAIN jobs \cup {name} |-> IF n = name THEN job ELSE jobs[n]]

\* Object identity: the oid of a CronJob is its name and the count of
\* CronJob objects stored under that name so far
NextOid(self, name) ==
    IF name \in DOMAIN self.jobs THEN self.jobs[name].oid + 1 ELSE 1

\* mutant: a duplicate name replaces the stored job
register_job_Overwrites(self, name, cron_expression, callback, timezone) ==
    LET made == CronJob(name, cron_expression, callback, timezone,
                        NextOid(self, name))
    IN  IF ~made.ok
        THEN [self |-> self, result |-> "returned", log |-> "error"]
        ELSE [self |-> [self EXCEPT !.jobs =
                          Put(@, name, IF self.running
                                       THEN CronJob_start(made.job)
                                       ELSE made.job)],
              result |-> "returned", log |-> "info"]

\* mutant: the ValueError of the parser is not caught
register_job_NoCatch(self, name, cron_expression, callback, timezone) ==
    IF name \in DOMAIN self.jobs
    THEN [self |-> self, result |-> "returned", log |-> "warning"]
    ELSE LET made == CronJob(name, cron_expression, callback, timezone,
                             NextOid(self, name))
         IN  IF ~made.ok
             THEN [self |-> self, result |-> "raised", log |-> "info"]
             ELSE [self |-> [self EXCEPT !.jobs =
                               Put(@, name, IF self.running
                                            THEN CronJob_start(made.job)
                                            ELSE made.job)],
                   result |-> "returned", log |-> "info"]

\* mutant: the job is stored before its expression is validated
register_job_StoresInvalid(self, name, cron_expression, callback, timezone) ==
    IF name \in DOMAIN self.jobs
    THEN [self |-> self, result |-> "returned", log |-> "warning"]
    ELSE LET made == CronJob(name, cron_expression, callback, timezone,
                             NextOid(self, name))
         IN  IF ~made.ok
             THEN [self |-> [self EXCEPT !.jobs = Put(@, name, made.job)],
                   result |-> "returned", log |-> "error"]
             ELSE [self |-> [self EXCEPT !.jobs =
                               Put(@, name, IF self.running
                                            THEN CronJob_start(made.job)
                                            ELSE made.job)],
                   result |-> "returned", log |-> "info"]

\* mutant: a job registered while the scheduler runs is not started
register_job_NoStart(self, name, cron_expression, callback, timezone) ==
    IF name \in DOMAIN self.jobs
    THEN [self |-> self, result |-> "returned", log |-> "warning"]
    ELSE LET made == CronJob(name, cron_expression, callback, timezone,
                             NextOid(self, name))
         IN  IF ~made.ok
             THEN [self |-> self, result |-> "returned", log |-> "error"]
             ELSE [self |-> [self EXCEPT !.jobs = Put(@, name, made.job)],
                   result |-> "returned", log |-> "info"]

\* TaskScheduler.register_job
register_job(self, name, cron_expression, callback, timezone) ==
    IF name \in DOMAIN self.jobs
    THEN [self |-> self, result |-> "returned", log |-> "warning"]
    ELSE LET made == CronJob(name, cron_expression, callback, timezone,
                             NextOid(self, name))
         IN  IF ~made.ok
             THEN [self |-> self, result |-> "returned", log |-> "error"]
             ELSE [self |-> [self EXCEPT !.jobs =
                               Put(@, name, IF self.running
                                            THEN CronJob_start(made.job)
                                            ELSE made.job)],
                   result |-> "returned", log |-> "info"]

\* mutant: start() without the test for an empty registry
start_NoEmptyCheck(self) ==
    [self |-> [jobs |-> [n \in DOMAIN self.jobs |-> CronJob_start(self.jobs[n])],
               running |-> TRUE],
     result |-> "returned", log |-> "info"]

\* TaskScheduler.start
start(self) ==
    IF DOMAIN self.jobs = {}
    THEN [self |-> self, result |-> "returned", log |-> "warning"]
    ELSE [self |-> [jobs |-> [n \in DOMAIN self.jobs |-> CronJob_start(self.jobs[n])],
                    running |-> TRUE],
          result |-> "returned",
          log |-> IF \E n \in DOMAIN self.jobs : self.jobs[n].running
                  THEN "warning" ELSE "info"]

\* mutant: stop() clears the scheduler's flag and leaves the jobs alone
stop_FlagOnly(self) ==
    [self |-> [self EXCEPT !.running = FALSE],
     result |-> "returned", log |-> "info"]

\* mutant: stop() returns at once when the scheduler is not running
stop_OnlyIfRunning(self) ==
    IF ~self.running
    THEN [self |-> self, result |-> "returned", log |-> "warning"]
    ELSE [self |-> [jobs |-> [n \in DOMAIN self.jobs |-> CronJob_stop(self.jobs[n])],
                    running |-> FALSE],
          result |-> "returned", log |-> "info"]

\* TaskScheduler.stop
stop(self) ==
    [self |-> [jobs |-> [n \in DOMAIN self.jobs |-> CronJob_stop(self.jobs[n])],
               running |-> FALSE],
     result |-> "returned",
     log |-> IF \E n \in DOMAIN self.jobs : ~self.jobs[n].running
             THEN "warning" ELSE "info"]

(***************************************************************************)
(* The inputs of the model: job names, and the registrations callers make. *)
(***************************************************************************)
Names == {"ping", "pong"}

\* "*/1 * * * * *"
EverySecond ==
    <<"*", "/", "1", " ", "*", " ", "*", " ", "*", " ", "*", " ", "*">>

\* "*/2 * * * * *"
EveryOther ==
    <<"*", "/", "2", " ", "*", " ", "*", " ", "*", " ", "*", " ", "*">>

\* "* * * *": four fields
TooFewFields ==
    <<"*", " ", "*", " ", "*", " ", "*">>

\* "60 * * * * *": a second outside 0..59
BadSecond ==
    <<"6", "0", " ", "*", " ", "*", " ", "*", " ", "*", " ", "*">>

Requests ==
    { [expr |-> EverySecond,  cb |-> "cb1", tz |-> "UTC"],
      [expr |-> EveryOther,   cb |-> "cb2", tz |-> "Europe/Oslo"],
      [expr |-> TooFewFields, cb |-> "cb1", tz |-> "Europe/Oslo"],
      [expr |-> BadSecond,    cb |-> "cb2", tz |-> "UTC"] }

(***************************************************************************)
(* State.  scheduler is the TaskScheduler instance; clock the instant      *)
(* datetime.utcnow() returns; result what the caller of the last call of   *)
(* the API observed ("returned" or "raised").  History: fires[n] lists     *)
(* the invocations of job n's callback, each with the sampled instant and  *)
(* the loop that made it; started says TaskScheduler.start() was called    *)
(* and stop() not since.                                                   *)
(*                                                                         *)
(* The remaining variables belong to the specifications further down that  *)
(* study one part of the program alone, and are idle elsewhere:            *)
(* outcomes[n] lists how each invocation of job n ended; late counts the   *)
(* ticks by which polls ran behind their pause; arg and ret are the        *)
(* argument and the value of a call of a function of ExtendedCronTab;      *)
(* heap is the class attribute TaskScheduler._instance with the objects    *)
(* the constructor made and the references it handed out; main is the      *)
(* process of src/main.py: the position of the coroutine main(), the       *)
(* module's shutdown_flag, its local db_conn, the API thread and the       *)
(* signal handlers installed.                                              *)
(***************************************************************************)
VARIABLES scheduler, clock, result, fires, started,
          outcomes, late, arg, ret, heap, main

vars == <<scheduler, clock, result, fires, started,
          outcomes, late, arg, ret, heap, main>>

\* the variables of the scheduler and its history
core == <<scheduler, clock, result, fires, started>>

\* the variables of the specifications of one part
aux == <<outcomes, late, arg, ret, heap, main>>

Idle == "idle"

Registered == DOMAIN scheduler.jobs

Job(n) == scheduler.jobs[n]

WithJob(n, job) == [scheduler EXCEPT !.jobs[n] = job]

Init ==
    /\ scheduler = Initialize
    /\ clock = 0
    /\ result = "none"
    /\ fires = [n \in Names |-> <<>>]
    /\ started = FALSE
    /\ outcomes = [n \in Names |-> <<>>]
    /\ late = 0
    /\ arg = Idle
    /\ ret = Idle
    /\ heap = Idle
    /\ main = Idle

\* a call of TaskScheduler.register_job
Register(name, req) ==
    LET r == register_job(scheduler, name, req.expr, req.cb, req.tz)
    IN  /\ scheduler' = r.self
        /\ result' = r.result
        /\ UNCHANGED <<clock, fires, started, aux>>

CanStart(job) == job.running \/ job.task < MaxLoops

\* a call of TaskScheduler.start
SchedulerStart ==
    /\ \A n \in Registered : CanStart(Job(n))
    /\ scheduler' = start(scheduler).self
    /\ result' = start(scheduler).result
    /\ started' = TRUE
    /\ UNCHANGED <<clock, fires, aux>>

\* a call of TaskScheduler.stop
SchedulerStop ==
    /\ scheduler' = stop(scheduler).self
    /\ result' = stop(scheduler).result
    /\ started' = FALSE
    /\ UNCHANGED <<clock, fires, aux>>

\* a call of CronJob.start on a registered job
JobStart(n) ==
    /\ n \in Registered
    /\ CanStart(Job(n))
    /\ scheduler' = WithJob(n, CronJob_start(Job(n)))
    /\ result' = "returned"
    /\ UNCHANGED <<clock, fires, started, aux>>

\* a call of CronJob.stop on a registered job
JobStop(n) ==
    /\ n \in Registered
    /\ scheduler' = WithJob(n, CronJob_stop(Job(n)))
    /\ result' = "returned"
    /\ UNCHANGED <<clock, fires, started, aux>>

\* The event loop runs ready handles in the order they were scheduled:
\* the wakeup scheduled by task.cancel() in stop() precedes the first step
\* of a task a later start() creates.
MayStep(job, i) ==
    /\ ~job.loops[i].cancel
    /\ \/ /\ job.loops[i].st = "new"
          /\ \A k \in DOMAIN job.loops : ~job.loops[k].cancel
       \/ /\ job.loops[i].st = "sleeping"
          /\ job.loops[i].left = 0

\* mutant: the loops share a lock, and a loop does not run its pass while
\* the callback of another job is in flight
Poll_Exclusive(n, i, suspends) ==
    /\ n \in Registered
    /\ i \in DOMAIN Job(n).loops
    /\ MayStep(Job(n), i)
    /\ \A m \in Registered \ {n} : InFlight(Job(m)) = {}
    /\ scheduler' = WithJob(n, LoopPass(Job(n), i, clock, suspends))
    /\ fires' = IF Job(n).running /\ ShouldFire(Job(n), clock)
                THEN [fires EXCEPT ![n] = Append(@, [at |-> clock, loop |-> i])]
                ELSE fires
    /\ UNCHANGED <<clock, result, started, aux>>

\* loop i of job n runs one pass of _schedule_loop
Poll(n, i, suspends) ==
    /\ n \in Registered
    /\ i \in DOMAIN Job(n).loops
    /\ MayStep(Job(n), i)
    /\ scheduler' = WithJob(n, LoopPass(Job(n), i, clock, suspends))
    /\ fires' = IF Job(n).running /\ ShouldFire(Job(n), clock)
                THEN [fires EXCEPT ![n] = Append(@, [at |-> clock, loop |-> i])]
                ELSE fires
    /\ UNCHANGED <<clock, result, started, aux>>

\* the callback in flight in loop i of job n returns or raises an Exception
CallbackReturn(n, i) ==
    /\ n \in Registered
    /\ i \in InFlight(Job(n))
    /\ ~Job(n).loops[i].cancel
    /\ scheduler' = WithJob(n, CallbackEnds(Job(n), i))
    /\ UNCHANGED <<clock, result, fires, started, aux>>

\* the callback in flight in loop i of job n raises CancelledError
CallbackCancelled(n, i) ==
    /\ n \in Registered
    /\ i \in InFlight(Job(n))
    /\ ~Job(n).loops[i].cancel
    /\ scheduler' = WithJob(n, CallbackAborts(Job(n), i))
    /\ UNCHANGED <<clock, result, fires, started, aux>>

\* the event loop delivers the CancelledError requested by task.cancel()
DeliverCancel(n, i) ==
    /\ n \in Registered
    /\ i \in DOMAIN Job(n).loops
    /\ Job(n).loops[i].cancel
    /\ scheduler' = WithJob(n, CancelDelivered(Job(n), i))
    /\ UNCHANGED <<clock, result, fires, started, aux>>

\* half a second passes
Tick ==
    /\ clock < MaxClock
    /\ clock' = clock + 1
    /\ scheduler' = [scheduler EXCEPT !.jobs =
                        [n \in Registered |-> Elapse(Job(n))]]
    /\ UNCHANGED <<result, fires, started, aux>>

Next ==
    \/ \E name \in Names, req \in Requests : Register(name, req)
    \/ SchedulerStart
    \/ SchedulerStop
    \/ \E n \in Names : JobStart(n)
    \/ \E n \in Names : JobStop(n)
    \/ \E n \in Names, i \in 1..MaxLoops, suspends \in BOOLEAN : Poll(n, i, suspends)
    \/ \E n \in Names, i \in 1..MaxLoops : CallbackReturn(n, i)
    \/ \E n \in Names, i \in 1..MaxLoops : CallbackCancelled(n, i)
    \/ \E n \in Names, i \in 1..MaxLoops : DeliverCancel(n, i)
    \/ Tick

Spec == Init /\ [][Next]_vars

(***************************************************************************)
(* Properties                                                              *)
(***************************************************************************)
Valid(req) == ExtendedCronTab(req.expr).ok

ValidRequests == {req \in Requests : Valid(req)}

InvalidRequests == Requests \ ValidRequests

AllStopped ==
    /\ ~scheduler.running
    /\ \A n \in Registered : ~Job(n).running

\* C1: every job has at most one invocation of its callback in flight, after
\* any sequence of registrations, starts, stops, polls and completions.
C1_AtMostOneInFlight ==
    \A n \in Registered : Cardinality(InFlight(Job(n))) <= 1

\* C1 witness: an invocation is in flight in a loop that a stop cancelled
\* while a later start has already created the job's next loop.
C1_Witness ==
    \E n \in Registered :
        /\ Job(n).running
        /\ DOMAIN Job(n).loops = {1, 2}
        /\ InFlight(Job(n)) = {1}

\* C2: any two invocations of one job start at sampled instants at least one
\* second apart, also across a stop followed by a start.
C2_FiresOneSecondApart ==
    \A n \in Names :
        \A i, j \in DOMAIN fires[n] :
            i < j => fires[n][j].at - fires[n][i].at >= GuardTicks

\* C2 witness: a job fired twice, first from its first loop and then, just
\* one second later, from the loop created by a start that followed a stop.
C2_Witness ==
    \E n \in Registered :
        /\ Len(fires[n]) = 2
        /\ fires[n][1].loop = 1
        /\ fires[n][2].loop = 2
        /\ fires[n][2].at = fires[n][1].at + GuardTicks

\* C3: Scheduler.stop() leaves the scheduler and every job stopped, and while
\* they stay stopped no invocation begins.
C3_NoFireWhileStopped ==
    [][ /\ SchedulerStop => AllStopped'
        /\ AllStopped => fires' = fires ]_vars

\* C3 witness: all is stopped after a job fired, and a full second has
\* passed since, so that a live loop would fire again.
C3_Witness ==
    /\ AllStopped
    /\ ~started
    /\ \E n \in Registered :
          /\ Job(n).last_run # NoInstant
          /\ ShouldFire(Job(n), clock)

\* C4: Register with a name already in the registry changes nothing: the
\* registry, the Job object and every field of it, and the scheduler's flag.
C4_DuplicateRegisterNoOp ==
    [][ \A name \in Names, req \in Requests :
          (name \in Registered /\ Register(name, req))
             => scheduler' = scheduler ]_vars

\* C4 witness: a registered job that is running, has fired and has a live
\* loop, while the scheduler runs and an API call has returned (a duplicate
\* Register returns to this very state).
C4_Witness ==
    /\ scheduler.running
    /\ result = "returned"
    /\ \E n \in Registered :
          /\ Job(n).running
          /\ Job(n).last_run # NoInstant
          /\ Job(n).task \in DOMAIN Job(n).loops

C6_InvalidRegisterNoChange ==
    [][ \A name \in Names, req \in InvalidRequests :
          Register(name, req)
             => (scheduler' = scheduler /\ fires' = fires) ]_vars

\* C6 witness: the registry holds one running job with a live loop and one
\* name is free, the state a failed Register must preserve.
C6_Witness ==
    /\ Cardinality(Registered) = 1
    /\ result = "returned"
    /\ \E n \in Registered : Job(n).running /\ Job(n).loops # <<>>
    /\ InvalidRequests # {}

\* the job registered under name is running with its loop created
StartedOnReturn(name) ==
    /\ name \in DOMAIN scheduler'.jobs
    /\ scheduler'.jobs[name].running
    /\ scheduler'.jobs[name].task = 1
    /\ scheduler'.jobs[name].loops = <<NewLoop>>

\* C7 as stated: once Scheduler.start() was called and stop() not since,
\* every job registered with a new name and a valid expression is running
\* with its loop started when Register returns.
C7_StartedAfterAnyStart ==
    [][ \A name \in Names, req \in ValidRequests :
          (started /\ name \notin Registered /\ Register(name, req))
             => StartedOnReturn(name) ]_vars

\* C7 amended: while the scheduler's running flag is true (start() was
\* called with at least one job registered, and stop() not since), every job
\* registered with a new name and a valid expression is running with its
\* loop started when Register returns; while the flag is false, which
\* includes the time after a start() on an empty registry, the new job is
\* stored not running.
C7_StartedIffSchedulerRunning ==
    [][ /\ scheduler.running => started
        /\ \A name \in Names, req \in ValidRequests :
             (name \notin Registered /\ Register(name, req))
                => IF scheduler.running
                   THEN StartedOnReturn(name)
                   ELSE /\ name \in DOMAIN scheduler'.jobs
                        /\ ~scheduler'.jobs[name].running
                        /\ scheduler'.jobs[name].loops = <<>> ]_vars

\* C7 witness: the scheduler runs, one job has fired, and the other job has
\* a loop that has not yet made its first step.
C7_Witness ==
    /\ scheduler.running
    /\ started
    /\ Registered = Names
    /\ \E n, m \in Registered :
          /\ Job(n).last_run # NoInstant
          /\ Job(m).running
          /\ Job(m).task = 1
          /\ Job(m).loops = <<NewLoop>>

\* C8: Scheduler.start() with no job registered changes no state; with one
\* or more it sets the scheduler running and leaves every registered job
\* running, whatever its state before.
C8_SchedulerStart ==
    [][ SchedulerStart =>
          IF Registered = {}
          THEN scheduler' = scheduler
          ELSE /\ scheduler'.running
               /\ DOMAIN scheduler'.jobs = Registered
               /\ \A n \in Registered : scheduler'.jobs[n].running ]_vars

\* C8 witness: after a start, the scheduler and both jobs run, one job in
\* its first loop and the other in the loop of a restart.
C8_Witness ==
    /\ scheduler.running
    /\ started
    /\ Registered = Names
    /\ \A n \in Registered : Job(n).running
    /\ \E n, m \in Registered :
          /\ Job(n).task = 1 /\ Job(n).loops = <<NewLoop>>
          /\ Job(m).task = 2 /\ 2 \in DOMAIN Job(m).loops

\* C9: after Scheduler.stop() the scheduler's flag and every job's flag are
\* false; jobs that were already stopped are left as they were, and the
\* call returns normally.
C9_SchedulerStop ==
    [][ SchedulerStop =>
          /\ ~scheduler'.running
          /\ DOMAIN scheduler'.jobs = Registered
          /\ \A n \in Registered :
                /\ ~scheduler'.jobs[n].running
                /\ ~Job(n).running => scheduler'.jobs[n] = Job(n)
          /\ result' = "returned" ]_vars

\* C9 witness: all is stopped; one job was never started and the other was
\* stopped while its callback was in flight.
C9_Witness ==
    /\ AllStopped
    /\ ~started
    /\ \E n, m \in Registered :
          /\ Job(n).task = NoTask
          /\ Job(m).task # NoTask
          /\ InFlight(Job(m)) # {}

CancelPending(job) == {i \in InFlight(job) : job.loops[i].cancel}

Ready(n, i) ==
    /\ n \in Registered
    /\ i \in DOMAIN Job(n).loops
    /\ MayStep(Job(n), i)

HasBeenStopped(job) ==
    /\ job.task # NoTask
    /\ (~job.running \/ job.task > NoTask + 1)

\* C20 as stated: once a job has been stopped it never fires again,
\* whatever calls of start and stop follow.
C20_StoppedNeverFiresAgain ==
    [][ \A n \in Registered :
          HasBeenStopped(Job(n)) => fires'[n] = fires[n] ]_vars

\* C20 amended: a stopped job is not stopped for good.  CronJob.start or
\* TaskScheduler.start on a stopped job sets it running again with one new
\* loop; and every invocation is made while the job is running, by the loop
\* of its latest start, so a stopped job fires again only after such a
\* start.
C20_StoppedUntilStartedAgain ==
    [][ \A n \in Registered :
          /\ (~Job(n).running /\ (JobStart(n) \/ SchedulerStart)) =>
                scheduler'.jobs[n] =
                   SetLoop([Job(n) EXCEPT !.running = TRUE, !.task = @ + 1],
                           Job(n).task + 1, NewLoop)
          /\ fires'[n] # fires[n] =>
                /\ Job(n).running
                /\ fires'[n] = Append(fires[n], [at |-> clock, loop |-> Job(n).task]) ]_vars

\* C20 witness: a job that did not fire before it was stopped was started
\* again by CronJob.start, the scheduler staying stopped, and has fired from
\* its second loop.
C20_Witness ==
    \E n \in Registered :
        /\ ~scheduler.running
        /\ Job(n).running
        /\ Job(n).task = 2
        /\ Len(fires[n]) = 1
        /\ fires[n][1].loop = 2

(***************************************************************************)
(* The life of one job.  SpecLife is Spec with the single name "ping":     *)
(* the same calls of the API, polls, completions and ticks, on a registry  *)
(* that holds at most that job.                                            *)
(***************************************************************************)
LifeNext ==
    \/ \E req \in Requests : Register("ping", req)
    \/ SchedulerStart
    \/ SchedulerStop
    \/ JobStart("ping")
    \/ JobStop("ping")
    \/ \E i \in 1..MaxLoops, suspends \in BOOLEAN : Poll("ping", i, suspends)
    \/ \E i \in 1..MaxLoops : CallbackReturn("ping", i)
    \/ \E i \in 1..MaxLoops : CallbackCancelled("ping", i)
    \/ \E i \in 1..MaxLoops : DeliverCancel("ping", i)
    \/ Tick

SpecLife == Init /\ [][LifeNext]_vars

\* the job was started before and is stopped now
Stopped(job) == job.task # NoTask /\ ~job.running

\* C21: a job goes from created to running to stopped and to running again.
\* Start on a stopped job sets it running with exactly one new loop, the
\* loops it had staying as they were; only the loop of the latest start
\* polls, and only while the job runs, so the loop an earlier stop cancelled
\* polls and invokes no more; and the loop of a restart fires at its poll
\* when the schedule is due and a second has passed since the last run.
C21_RestartWithOneNewLoop ==
    [][ \A n \in Registered :
          /\ (Stopped(Job(n)) /\ (JobStart(n) \/ SchedulerStart)) =>
                /\ scheduler'.jobs[n].running
                /\ scheduler'.jobs[n].task = Job(n).task + 1
                /\ DOMAIN scheduler'.jobs[n].loops =
                      DOMAIN Job(n).loops \cup {Job(n).task + 1}
                /\ scheduler'.jobs[n].loops[Job(n).task + 1] = NewLoop
                /\ \A k \in DOMAIN Job(n).loops :
                      scheduler'.jobs[n].loops[k] = Job(n).loops[k]
          /\ \A i \in 1..MaxLoops, suspends \in BOOLEAN :
                Poll(n, i, suspends) =>
                   /\ Job(n).running
                   /\ i = Job(n).task
                   /\ (i > 1 /\ ShouldFire(Job(n), clock)) =>
                         /\ fires'[n] = Append(fires[n], [at |-> clock, loop |-> i])
                         /\ scheduler'.jobs[n].last_run = clock ]_vars

\* C21 witness: the job fired from its first loop, was stopped and started
\* again, and its second loop, the only loop left, fired at the next due
\* second.
C21_Witness ==
    \E n \in Registered :
        /\ Job(n).running
        /\ Job(n).task = 2
        /\ DOMAIN Job(n).loops = {2}
        /\ Len(fires[n]) = 2
        /\ fires[n][1].loop = 1
        /\ fires[n][2].loop = 2
        /\ fires[n][2].at = clock
        /\ Job(n).last_run = clock
        /\ Job(n).loops[2].st = "sleeping"

\* C22: start and stop of a job are idempotent.  CronJob.start on a running
\* job and CronJob.stop on a job that is not running change no state and
\* return normally; and TaskScheduler.start while every registered job runs,
\* as after a start just before, leaves every job as it is, with the loop
\* it has.
C22_StartStopIdempotent ==
    [][ /\ \A n \in Registered :
             /\ (JobStart(n) /\ Job(n).running) =>
                   (scheduler' = scheduler /\ fires' = fires /\ result' = "returned")
             /\ (JobStop(n) /\ ~Job(n).running) =>
                   (scheduler' = scheduler /\ fires' = fires /\ result' = "returned")
        /\ (SchedulerStart /\ \A n \in Registered : Job(n).running) =>
              (scheduler'.jobs = scheduler.jobs /\ fires' = fires /\ result' = "returned") ]_vars

\* C22 witness: the scheduler and the job run, the job in the loop its first
\* start created, the callback in flight (a second start returns to this
\* very state).
C22_Witness ==
    /\ scheduler.running
    /\ started
    /\ result = "returned"
    /\ \E n \in Registered :
          /\ Job(n).running
          /\ Job(n).task = 1
          /\ DOMAIN Job(n).loops = {1}
          /\ InFlight(Job(n)) = {1}

\* the loops of a job that will run another pass unless stopped: those
\* with no cancellation pending
Live(job) == {i \in DOMAIN job.loops : ~job.loops[i].cancel}

\* C30 as stated: a job whose running flag is true has exactly one live
\* loop, the one of its latest start, and a job whose flag is false has no
\* loop that will poll again, whatever way its callbacks ended: by
\* returning, by raising an Exception or by raising CancelledError.
C30_RunningHasOneLiveLoop ==
    \A n \in Registered :
        /\ Job(n).running => Live(Job(n)) = {Job(n).task}
        /\ ~Job(n).running => Live(Job(n)) = {}

\* C31: last_run changes only in the step in which the job fires, and is
\* then the sampled instant, assigned when the invocation begins: it holds
\* that instant while the callback is in flight and after the invocation
\* ended, however it ended.  A poll less than a second after last_run does
\* not fire, so a failed or cancelled invocation is not retried within its
\* second; a poll that does not fire, the end of a callback, a
\* cancellation, a tick, stop, start and a duplicate register_job leave
\* last_run as it is.
C31_LastRunOnlyOnFire ==
    [][ \A n \in Registered :
          LET before == Job(n).last_run
              after  == scheduler'.jobs[n].last_run
          IN  /\ n \in DOMAIN scheduler'.jobs
              /\ (after # before \/ fires'[n] # fires[n]) =>
                    /\ after = clock
                    /\ \E i \in DOMAIN Job(n).loops :
                          fires'[n] = Append(fires[n], [at |-> clock, loop |-> i])
              /\ \A i \in InFlight(scheduler'.jobs[n]) :
                    /\ fires'[n] # <<>>
                    /\ after = fires'[n][Len(fires'[n])].at
              /\ (before # NoInstant /\ clock - before < GuardTicks) =>
                    fires'[n] = fires[n]
              /\ ( \/ SchedulerStart \/ SchedulerStop
                   \/ JobStart(n) \/ JobStop(n)
                   \/ \E req \in Requests : Register(n, req)
                   \/ \E i \in 1..MaxLoops :
                         \/ CallbackReturn(n, i)
                         \/ CallbackCancelled(n, i)
                         \/ DeliverCancel(n, i)
                   \/ Tick ) => after = before ]_vars

\* C31 witness: the job was stopped while its invocation was in flight and
\* started again within the same second; the loop of the restart has
\* polled without firing, and last_run is still the instant of that
\* invocation.
C31_Witness ==
    \E n \in Registered :
        /\ Job(n).running
        /\ Job(n).task = 2
        /\ DOMAIN Job(n).loops = {2}
        /\ Job(n).loops[2].st = "sleeping"
        /\ Len(fires[n]) = 1
        /\ fires[n][1].loop = 1
        /\ Job(n).last_run = fires[n][1].at
        /\ clock - Job(n).last_run < GuardTicks
        /\ is_time_to_run(Job(n).crontab, DateTime(clock))

(***************************************************************************)
(* The scheduler driven through its own API alone.  SpecApi is Spec        *)
(* without the calls of CronJob.start and CronJob.stop that a caller may   *)
(* make on a job directly.                                                 *)
(***************************************************************************)
ApiNext ==
    \/ \E name \in Names, req \in Requests : Register(name, req)
    \/ SchedulerStart
    \/ SchedulerStop
    \/ \E n \in Names, i \in 1..MaxLoops, suspends \in BOOLEAN : Poll(n, i, suspends)
    \/ \E n \in Names, i \in 1..MaxLoops : CallbackReturn(n, i)
    \/ \E n \in Names, i \in 1..MaxLoops : CallbackCancelled(n, i)
    \/ \E n \in Names, i \in 1..MaxLoops : DeliverCancel(n, i)
    \/ Tick

SpecApi == Init /\ [][ApiNext]_vars

\* C29: when jobs are driven through register_job, start and stop of the
\* scheduler alone, the scheduler's running flag is true exactly when a job
\* is registered and the running flag of every registered job is true; and
\* when the scheduler's flag is false no registered job is running.
C29_FlagsAgree ==
    /\ scheduler.running <=>
          (Registered # {} /\ \A n \in Registered : Job(n).running)
    /\ ~scheduler.running => \A n \in Registered : ~Job(n).running

\* C29 witness: the scheduler runs with both jobs running, one restarted
\* after a stop and the other, its callback in flight, in its first loop.
C29_Witness ==
    /\ scheduler.running
    /\ Registered = Names
    /\ \A n \in Registered : Job(n).running
    /\ \E n, m \in Registered :
          /\ Job(n).task = 2
          /\ Job(m).task = 1
          /\ InFlight(Job(m)) = {1}

(***************************************************************************)
(* The jobs at run time.  SpecRun starts from the scheduler holding two    *)
(* jobs, both started at instant 0, and follows their loops alone: polls,  *)
(* with the way each invocation ends (it returns, it raises an Exception,  *)
(* or it suspends and ends later), and the passing of time.  No call of    *)
(* the API interferes.  outcomes[n][j] says how invocation fires[n][j]     *)
(* ended, "pending" while it is in flight.                                 *)
(***************************************************************************)
MaxRun == 6

Outcomes == {"returned", "raised", "pending"}

TwoJobs ==
    register_job(register_job(Initialize, "ping", EverySecond, "cb1", "UTC").self,
                 "pong", EveryOther, "cb2", "UTC").self

RunInit ==
    /\ scheduler = start(TwoJobs).self
    /\ clock = 0
    /\ result = "returned"
    /\ fires = [n \in Names |-> <<>>]
    /\ started = TRUE
    /\ outcomes = [n \in Names |-> <<>>]
    /\ late = 0
    /\ arg = Idle
    /\ ret = Idle
    /\ heap = Idle
    /\ main = Idle

\* the invocation in flight in loop i of job n ends as o
SetOutcome(n, i, o) ==
    [outcomes EXCEPT ![n] =
        [j \in DOMAIN @ |->
            IF fires[n][j].loop = i /\ @[j] = "pending" THEN o ELSE @[j]]]

\* loop i of job n runs one pass of _schedule_loop; the callback, when
\* invoked, returns or raises before it suspends, or suspends ("pending")
RunPoll(n, i, outcome) ==
    /\ n \in Registered
    /\ i \in DOMAIN Job(n).loops
    /\ MayStep(Job(n), i)
    /\ scheduler' = WithJob(n, LoopPass(Job(n), i, clock, outcome = "pending"))
    /\ IF Job(n).running /\ ShouldFire(Job(n), clock)
       THEN /\ fires' = [fires EXCEPT ![n] = Append(@, [at |-> clock, loop |-> i])]
            /\ outcomes' = [outcomes EXCEPT ![n] = Append(@, outcome)]
       ELSE UNCHANGED <<fires, outcomes>>
    /\ UNCHANGED <<clock, result, started, late, arg, ret, heap, main>>

\* the callback in flight in loop i of job n returns
RunReturn(n, i) ==
    /\ n \in Registered
    /\ i \in InFlight(Job(n))
    /\ scheduler' = WithJob(n, CallbackEnds(Job(n), i))
    /\ outcomes' = SetOutcome(n, i, "returned")
    /\ UNCHANGED <<clock, result, fires, started, late, arg, ret, heap, main>>

\* the callback in flight in loop i of job n raises an Exception
RunRaise(n, i) ==
    /\ n \in Registered
    /\ i \in InFlight(Job(n))
    /\ scheduler' = WithJob(n, CallbackFails(Job(n), i))
    /\ outcomes' = SetOutcome(n, i, "raised")
    /\ UNCHANGED <<clock, result, fires, started, late, arg, ret, heap, main>>

\* half a second passes
RunTick ==
    /\ clock < MaxRun
    /\ clock' = clock + 1
    /\ scheduler' = [scheduler EXCEPT !.jobs =
                        [n \in Registered |-> Elapse(Job(n))]]
    /\ UNCHANGED <<result, fires, started, aux>>

RunNext ==
    \/ \E n \in Names, i \in 1..MaxLoops, o \in Outcomes : RunPoll(n, i, o)
    \/ \E n \in Names, i \in 1..MaxLoops : RunReturn(n, i)
    \/ \E n \in Names, i \in 1..MaxLoops : RunRaise(n, i)
    \/ RunTick

SpecRun == RunInit /\ [][RunNext]_vars

\* the invocations of job n so far include one that raised
HasFailed(n) == \E j \in DOMAIN outcomes[n] : outcomes[n][j] = "raised"

\* C11: an invocation that raises an Exception does not end scheduling.  The
\* failing step leaves the job running with its loop alive and pausing for
\* one poll interval, and changes no other job; a job that has had a failed
\* invocation fires at every later poll of its loop at which the schedule
\* is due and the re-fire guard allows it.
C11_FailureKeepsScheduling ==
    [][ \A n \in Names, i \in 1..MaxLoops :
          /\ RunRaise(n, i) =>
                /\ scheduler'.jobs[n] = [Job(n) EXCEPT !.loops[i] = Sleeping]
                /\ \A m \in Registered \ {n} : scheduler'.jobs[m] = Job(m)
                /\ fires' = fires
          /\ \A o \in Outcomes :
                (RunPoll(n, i, o) /\ HasFailed(n)) =>
                   /\ scheduler'.jobs[n].running
                   /\ i \in DOMAIN scheduler'.jobs[n].loops
                   /\ ShouldFire(Job(n), clock) =>
                         fires'[n] = Append(fires[n], [at |-> clock, loop |-> i])
          /\ (\E j \in DOMAIN outcomes'[n] : outcomes'[n][j] = "raised") =>
                /\ scheduler'.jobs[n].running
                /\ scheduler'.jobs[n].task \in DOMAIN scheduler'.jobs[n].loops ]_vars

\* C11 witness: a job whose first invocation raised was invoked again by
\* the same loop one second later, while the other job fired as well.
C11_Witness ==
    \E n, m \in Registered :
        /\ n # m
        /\ Len(fires[n]) = 2
        /\ outcomes[n][1] = "raised"
        /\ fires[n][2].loop = fires[n][1].loop
        /\ fires[n][2].at = fires[n][1].at + GuardTicks
        /\ Len(fires[m]) > 0

\* the seconds up to now at which the schedule of job n is due (the jobs of
\* SpecRun are running from instant 0 on)
DueSecondsSoFar(n) ==
    {s \in 0..(clock \div TicksPerSecond) :
        is_time_to_run(Job(n).crontab, DateTime(s * TicksPerSecond))}

\* C19: every invocation starts at a poll whose sampled instant is due, and
\* a due instant that passed without a poll is not made up for: a job has
\* no more invocations than due seconds have begun since it runs, and
\* last_run is unset or an instant that is due.
C19_FiresOnlyWhenDue ==
    \A n \in Registered :
        /\ \A j \in DOMAIN fires[n] :
              /\ fires[n][j].at <= clock
              /\ is_time_to_run(Job(n).crontab, DateTime(fires[n][j].at))
        /\ Len(fires[n]) <= Cardinality(DueSecondsSoFar(n))
        /\ \/ Job(n).last_run = NoInstant /\ fires[n] = <<>>
           \/ /\ fires[n] # <<>>
              /\ Job(n).last_run = fires[n][Len(fires[n])].at
              /\ is_time_to_run(Job(n).crontab, DateTime(Job(n).last_run))

\* C19 witness: in second 3 the job due every other second has its one
\* invocation of second 0 behind it, completed, and has not fired for
\* second 2; the job due every second fired in second 0 and next in
\* second 2 or later, second 1 having passed without an invocation.
C19_Witness ==
    \E n, m \in Registered :
        /\ clock \div TicksPerSecond = 3
        /\ Cardinality(DueSecondsSoFar(n)) = 2
        /\ Len(fires[n]) = 1
        /\ outcomes[n] = <<"returned">>
        /\ Job(n).loops[1].st = "sleeping"
        /\ Cardinality(DueSecondsSoFar(m)) = 4
        /\ Len(fires[m]) = 2
        /\ fires[m][2].at - fires[m][1].at >= 2 * TicksPerSecond

(***************************************************************************)
(* One job with the every-second schedule and a callback that completes    *)
(* at once, from the moment the scheduler is started.  asyncio.sleep(0.5)  *)
(* pauses for half a second or longer: in SpecPing a poll runs at the end  *)
(* of its pause or any number of ticks later, and late counts the ticks    *)
(* that passed while the loop was due to poll.                             *)
(***************************************************************************)
MaxLate == 3

\* the three seconds of the observation
WindowTicks == 3 * TicksPerSecond

OnlyPing ==
    register_job(Initialize, "ping", EverySecond, "cb1", "UTC").self

PingInit ==
    /\ scheduler = start(OnlyPing).self
    /\ clock = 0
    /\ result = "returned"
    /\ fires = [n \in Names |-> <<>>]
    /\ started = TRUE
    /\ outcomes = [n \in Names |-> <<>>]
    /\ late = 0
    /\ arg = Idle
    /\ ret = Idle
    /\ heap = Idle
    /\ main = Idle

\* the loop of the job is due to poll
Overdue == \E i \in DOMAIN Job("ping").loops : MayStep(Job("ping"), i)

\* the loop polls, and the callback returns at once
PingPoll(i) == RunPoll("ping", i, "returned")

\* half a second passes, the poll that is due running late by as much
PingTick ==
    /\ clock <= WindowTicks
    /\ Overdue => late < MaxLate
    /\ clock' = clock + 1
    /\ late' = IF Overdue THEN late + 1 ELSE late
    /\ scheduler' = [scheduler EXCEPT !.jobs =
                        [n \in Registered |-> Elapse(Job(n))]]
    /\ UNCHANGED <<result, fires, started, outcomes, arg, ret, heap, main>>

PingNext ==
    \/ \E i \in 1..MaxLoops : PingPoll(i)
    \/ PingTick

SpecPing == PingInit /\ [][PingNext]_vars

\* the invocations within the three seconds after Start
InWindow == {j \in DOMAIN fires["ping"] : fires["ping"][j].at <= WindowTicks}

\* slightly over three seconds have passed
WindowOver == clock > WindowTicks

\* the third invocation comes two guard intervals after the first: what is
\* left of the window is the lateness the polls can absorb
Slack == WindowTicks - 2 * GuardTicks

\* C13 as stated: whatever the lengths of the pauses, each half a second or
\* longer, the job is invoked at least 3 and at most 4 times in the three
\* seconds after Start.
C13_ThreeToFourAnyTiming ==
    /\ Cardinality(InWindow) <= 4
    /\ WindowOver => Cardinality(InWindow) >= 3

\* C13 amended: the job is invoked at most 4 times in the three seconds
\* after Start whatever the timing of the polls, and at least 3 times when
\* the polls, the first one after Start included, ran late by one second
\* or less in total.
C13_ThreeToFourBoundedLateness ==
    /\ Cardinality(InWindow) <= 4
    /\ (WindowOver /\ late <= Slack) => Cardinality(InWindow) >= 3

\* C13 witness: the window is over, the polls ran late by a full second in
\* total, and the job was invoked exactly 3 times.
C13_Witness ==
    /\ WindowOver
    /\ late = Slack
    /\ Cardinality(InWindow) = 3

(***************************************************************************)
(* Faults of the pass.  SpecFault follows one started job as SpecRun       *)
(* does, and lets a pass of _schedule_loop raise an Exception outside the  *)
(* callback: before the schedule is tested (datetime.utcnow(), the         *)
(* logging calls, the tests themselves), or in the handler of _run_job     *)
(* after the callback has raised.                                          *)
(***************************************************************************)
\* the pass of loop i of job n raises before the schedule is tested
RunFault(n, i) ==
    /\ n \in Registered
    /\ i \in DOMAIN Job(n).loops
    /\ MayStep(Job(n), i)
    /\ Job(n).running
    /\ scheduler' = WithJob(n, PollFails(Job(n), i))
    /\ UNCHANGED <<clock, result, fires, started, aux>>

\* the callback in flight in loop i of job n raises an Exception and the
\* handler of _run_job raises in turn
RunHandlerFault(n, i) ==
    /\ n \in Registered
    /\ i \in InFlight(Job(n))
    /\ scheduler' = WithJob(n, PollFails(Job(n), i))
    /\ outcomes' = SetOutcome(n, i, "raised")
    /\ UNCHANGED <<clock, result, fires, started, late, arg, ret, heap, main>>

FaultNext ==
    \/ \E n \in Names, i \in 1..MaxLoops, o \in Outcomes : RunPoll(n, i, o)
    \/ \E n \in Names, i \in 1..MaxLoops : RunReturn(n, i)
    \/ \E n \in Names, i \in 1..MaxLoops : RunRaise(n, i)
    \/ \E n \in Names, i \in 1..MaxLoops : RunFault(n, i)
    \/ \E n \in Names, i \in 1..MaxLoops : RunHandlerFault(n, i)
    \/ RunTick

SpecFault == PingInit /\ [][FaultNext]_vars

\* C23: an Exception raised in the pass outside the callback does not end
\* the loop.  The step of the fault leaves the job running with its loop
\* alive at the start of a pause of one second, and assigns neither
\* last_run nor any other field; the pause runs down by one tick per tick
\* of the clock, a loop polls only when its pause is over, and then it can
\* poll.
C23_FaultBacksOffOneSecond ==
    [][ \A n \in Names, i \in 1..MaxLoops :
          /\ (RunFault(n, i) \/ RunHandlerFault(n, i)) =>
                /\ scheduler'.jobs[n].running
                /\ i \in DOMAIN scheduler'.jobs[n].loops
                /\ scheduler'.jobs[n] = [Job(n) EXCEPT !.loops[i] = Backoff]
                /\ scheduler'.jobs[n].last_run = Job(n).last_run
                /\ fires' = fires
          /\ (n \in Registered /\ i \in DOMAIN Job(n).loops /\ Job(n).loops[i].left > 0) =>
                /\ i \in DOMAIN scheduler'.jobs[n].loops
                /\ scheduler'.jobs[n].loops[i].left =
                      Job(n).loops[i].left - (clock' - clock)
                /\ fires'[n] = fires[n]
          /\ Ready(n, i) => ENABLED RunPoll(n, i, "returned") ]_vars

\* C23 witness: the job fired, its next pass a second later, with the
\* schedule due again, raised instead of firing, and its loop is at the
\* start of the pause of one second.
C23_Witness ==
    \E n \in Registered :
        /\ Job(n).running
        /\ Job(n).loops[Job(n).task] = Backoff
        /\ Len(fires[n]) = 1
        /\ outcomes[n] = <<"returned">>
        /\ Job(n).last_run = fires[n][1].at
        /\ ShouldFire(Job(n), clock)

(***************************************************************************)
(* The parser alone.  SpecParse draws a cron expression and applies        *)
(* ExtendedCronTab to its text.  The expression is drawn as a list of      *)
(* fields, each of a known syntax with known numbers, and written out as   *)
(* the text a caller would pass: arg holds the fields, the number of       *)
(* blanks between two fields and whether blanks surround the text; ret     *)
(* holds what the constructor gave.                                        *)
(***************************************************************************)
MaxFields == 7

MaxGap == 2

\* the numbers written in the fields: the ends of the six bounds, their
\* neighbours, and a negative number
Nums == {-1, 0, 1, 6, 7, 12, 13, 23, 24, 31, 32, 59, 60}

Star == [kind |-> "star", a |-> 0, b |-> 0]

StepOf(n) == [kind |-> "step", a |-> n, b |-> 0]

RangeOf(a, b) == [kind |-> "range", a |-> a, b |-> b]

ListOf(a, b) == [kind |-> "list", a |-> a, b |-> b]

IntOf(a) == [kind |-> "int", a |-> a, b |-> 0]

\* str(n) for -100 < n < 100
Str(n) ==
    LET m == IF n < 0 THEN 0 - n ELSE n
        d == IF m < 10
             THEN <<Digits[m + 1]>>
             ELSE <<Digits[(m \div 10) + 1], Digits[(m % 10) + 1]>>
    IN  IF n < 0 THEN <<"-">> \o d ELSE d

FieldText(f) ==
    CASE f.kind = "star"  -> <<"*">>
      [] f.kind = "step"  -> <<"*", "/">> \o Str(f.a)
      [] f.kind = "range" -> Str(f.a) \o <<"-">> \o Str(f.b)
      [] f.kind = "list"  -> Str(f.a) \o <<",">> \o Str(f.b)
      [] f.kind = "int"   -> Str(f.a)
      [] f.kind = "rangestep" -> Str(f.a) \o <<"-">> \o Str(f.b) \o <<"/", "2">>
      [] f.kind = "intstep"   -> Str(f.a) \o <<"/">> \o Str(f.b)
      [] f.kind = "nostar"    -> <<"/">> \o Str(f.a)

Blanks(k) == [i \in 1..k |-> " "]

RECURSIVE JoinFields(_, _)
JoinFields(fields, gap) ==
    IF fields = <<>>
    THEN <<>>
    ELSE IF Len(fields) = 1
         THEN FieldText(fields[1])
         ELSE FieldText(fields[1]) \o Blanks(gap) \o JoinFields(Tail(fields), gap)

\* the text of the expression
Text(a) ==
    IF a.pad
    THEN Blanks(1) \o JoinFields(a.fields, a.gap) \o Blanks(a.gap)
    ELSE JoinFields(a.fields, a.gap)

Probes ==
    {Star}
      \cup {StepOf(n) : n \in Nums}
      \cup {RangeOf(a, b) : a, b \in Nums}
      \cup {ListOf(a, b) : a, b \in Nums}
      \cup {IntOf(a) : a \in Nums}
      \cup {StepOf(5)}
      \cup {[kind |-> "rangestep", a |-> a, b |-> b] : a, b \in Nums}
      \cup {[kind |-> "intstep", a |-> a, b |-> b] : a, b \in Nums}
      \cup {[kind |-> "nostar", a |-> a, b |-> 0] : a \in Nums}

\* expressions of every field count, of fields valid in every position
CountArgs ==
    { [fields |-> [i \in 1..k |-> f], gap |-> g, pad |-> p] :
        k \in 0..MaxFields, f \in {Star, IntOf(6)}, g \in 1..MaxGap, p \in BOOLEAN }

\* expressions of 5 and of 6 fields, one field of any syntax among stars
ProbeArgs ==
    UNION { { [fields |-> [i \in 1..k |-> IF i = at THEN f ELSE Star],
               gap |-> 1, pad |-> FALSE] : at \in 1..k, f \in Probes } :
            k \in {5, 6} }

ParseArgs == CountArgs \cup ProbeArgs

NotParsed == [called |-> FALSE, crontab |-> NoCronTab]

ParseInit ==
    /\ scheduler = Initialize
    /\ clock = 0
    /\ result = "none"
    /\ fires = [n \in Names |-> <<>>]
    /\ started = FALSE
    /\ outcomes = [n \in Names |-> <<>>]
    /\ late = 0
    /\ arg \in ParseArgs
    /\ ret = NotParsed
    /\ heap = Idle
    /\ main = Idle

\* ExtendedCronTab(expression) is called
Parse ==
    /\ ~ret.called
    /\ ret' = [called |-> TRUE, crontab |-> ExtendedCronTab(Text(arg))]
    /\ UNCHANGED <<core, outcomes, late, arg, heap, main>>

ParseNext == Parse

SpecParse == ParseInit /\ [][ParseNext]_vars

\* C14: an expression is accepted only with exactly 5 or exactly 6
\* fields; with any other number of fields the constructor fails and gives
\* no schedule, whatever the fields hold and however they are spaced.
C14_FieldCount ==
    ret.called =>
        /\ ret.crontab.ok => Len(arg.fields) \in {5, 6}
        /\ ~ret.crontab.ok => ret.crontab = NoCronTab

\* C14 witness: an expression of more than 6 fields, each valid in every
\* position, separated by two blanks and surrounded by blanks, was refused.
C14_Witness ==
    /\ ret.called
    /\ ~ret.crontab.ok
    /\ Len(arg.fields) > 6
    /\ \A i \in DOMAIN arg.fields : arg.fields[i] = IntOf(6)
    /\ arg.gap = 2
    /\ arg.pad

\* the bounds of the six fields: second, minute, hour, day of month,
\* month, weekday
Bounds ==
    << [lo |-> 0, hi |-> 59], [lo |-> 0, hi |-> 59], [lo |-> 0, hi |-> 23],
       [lo |-> 1, hi |-> 31], [lo |-> 1, hi |-> 12], [lo |-> 0, hi |-> 6] >>

\* the six sets of a schedule, in the order of Bounds
Sets(crontab) ==
    << crontab.seconds, crontab.minutes, crontab.hours,
       crontab.days, crontab.months, crontab.weekdays >>

\* C15 as stated: every schedule the parser returns has six non-empty sets
\* whose members all lie within the bound of their field, whatever the
\* syntax and the numbers of the fields.
C15_SetsNonEmptyInBounds ==
    (ret.called /\ ret.crontab.ok) =>
        \A k \in 1..6 :
            /\ Sets(ret.crontab)[k] # {}
            /\ Sets(ret.crontab)[k] \subseteq Bounds[k].lo..Bounds[k].hi

\* the bound of field i of an expression of k fields (k is 5 or 6)
BoundOf(k, i) == Bounds[i + 6 - k]

\* field f holds a number outside lo..hi
OutOfBound(f, bound) ==
    CASE f.kind \in {"range", "list"} ->
             f.a \notin bound.lo..bound.hi \/ f.b \notin bound.lo..bound.hi
      [] f.kind = "int" -> f.a \notin bound.lo..bound.hi
      [] OTHER -> FALSE

\* C16 as stated: the parser fails whenever a range, a list or a bare
\* integer holds a number outside the bound of its field.
C16_OutOfBoundFails ==
    (ret.called /\ Len(arg.fields) \in {5, 6}) =>
        ((\E i \in DOMAIN arg.fields :
             OutOfBound(arg.fields[i], BoundOf(Len(arg.fields), i)))
           => ~ret.crontab.ok)

\* C25: a step field */N with N of 1 or more parses to exactly the values
\* min, min + N, min + 2N, ... up to the maximum of its field, and a field
\* with a "/" whose left side is not "*" (a range, a number or nothing)
\* makes the parser fail.
C25_StepValues ==
    (ret.called /\ Len(arg.fields) \in {5, 6}) =>
        /\ (\A i \in DOMAIN arg.fields :
               \/ arg.fields[i] = Star
               \/ arg.fields[i].kind = "step" /\ arg.fields[i].a >= 1) =>
              /\ ret.crontab.ok
              /\ \A i \in DOMAIN arg.fields :
                    arg.fields[i].kind = "step" =>
                       LET bound == BoundOf(Len(arg.fields), i)
                           N     == arg.fields[i].a
                       IN  Sets(ret.crontab)[i + 6 - Len(arg.fields)] =
                              {bound.lo + j * N : j \in 0..((bound.hi - bound.lo) \div N)}
        /\ (\E i \in DOMAIN arg.fields :
               arg.fields[i].kind \in {"rangestep", "intstep", "nostar"}) =>
              ~ret.crontab.ok

\* C25 witness: "*/5 * * * * *" was parsed, and its seconds are the 12
\* values 0, 5, ..., 55.
C25_Witness ==
    /\ ret.called
    /\ ret.crontab.ok
    /\ Len(arg.fields) = 6
    /\ arg.fields[1] = StepOf(5)
    /\ Cardinality(ret.crontab.seconds) = 12
    /\ ret.crontab.seconds = {0, 5, 10, 15, 20, 25, 30, 35, 40, 45, 50, 55}

(***************************************************************************)
(* ExtendedCronTab.next alone.  SpecUntil draws a schedule and an instant  *)
(* and applies next to them.  arg holds the parsed schedule and the        *)
(* instant from_time; ret the number of seconds next returned.             *)
(***************************************************************************)
\* the horizon of the scan
DaySeconds == 24 * 60 * 60

\* the instant s seconds after instant t
After(t, s) == t + s * TicksPerSecond

\* the test of the scan for the instant s seconds after from_time
DueAfter(crontab, from_time, s) ==
    is_time_to_run(crontab, DateTime(After(from_time, s)))

\* mutant: the scan begins at from_time itself
next_FromSame(crontab, from_time) ==
    IF \E s \in 0..(DaySeconds - 1) : DueAfter(crontab, from_time, s)
    THEN CHOOSE s \in 0..(DaySeconds - 1) :
            /\ DueAfter(crontab, from_time, s)
            /\ \A k \in 0..(s - 1) : ~DueAfter(crontab, from_time, k)
    ELSE DaySeconds

\* mutant: the scan begins two seconds after from_time and misses an
\* instant that is due one second after it
next_SkipsFirst(crontab, from_time) ==
    IF \E s \in 2..DaySeconds : DueAfter(crontab, from_time, s)
    THEN CHOOSE s \in 2..DaySeconds :
            /\ DueAfter(crontab, from_time, s)
            /\ \A k \in 2..(s - 1) : ~DueAfter(crontab, from_time, k)
    ELSE DaySeconds

\* ExtendedCronTab.next: the scan tests the instants 1, 2, ... seconds
\* after from_time in turn and returns at the first that is due; after
\* DaySeconds tests without one it returns the horizon
next(crontab, from_time) ==
    IF \E s \in 1..DaySeconds : DueAfter(crontab, from_time, s)
    THEN CHOOSE s \in 1..DaySeconds :
            /\ DueAfter(crontab, from_time, s)
            /\ \A k \in 1..(s - 1) : ~DueAfter(crontab, from_time, k)
    ELSE DaySeconds

\* "*/5 * * * * *", the schedule of the application's job
EveryFive == <<"*", "/", "5", " ", "*", " ", "*", " ", "*", " ", "*", " ", "*">>

\* "30 * * * * *": second 30 of every minute
HalfPast == <<"3", "0", " ", "*", " ", "*", " ", "*", " ", "*", " ", "*">>

\* "* * * * *": every minute
EveryMinute == <<"*", " ", "*", " ", "*", " ", "*", " ", "*">>

\* "0 0 * * *": every midnight
Midnight == <<"0", " ", "0", " ", "*", " ", "*", " ", "*">>

\* "0 0 0 3 * *": midnight of the third day of every month
ThirdDay == <<"0", " ", "0", " ", "0", " ", "3", " ", "*", " ", "*">>

\* "0 0 0 31 4 *": midnight of April 31
AprilLast == <<"0", " ", "0", " ", "0", " ", "3", "1", " ", "4", " ", "*">>

UntilSchedules ==
    {EverySecond, EveryFive, HalfPast, EveryMinute, Midnight, ThirdDay, AprilLast}

\* instants of January 1, 2 and 3: the first seconds of January 1 on the
\* second and half a second past it, the end of its first minute, its
\* noon, the last second of January 1 and of January 2
FromTimes ==
    {0, 1, 2, 9, 10, 118, 119, After(0, 43200), After(0, 86399),
     After(0, 86400), After(0, 129600), After(0, 172799) + 1}

UntilArgs ==
    { [crontab |-> ExtendedCronTab(e), from_time |-> t] :
        e \in UntilSchedules, t \in FromTimes }

NotCalled == [called |-> FALSE, seconds |-> 0]

UntilInit ==
    /\ scheduler = Initialize
    /\ clock = 0
    /\ result = "none"
    /\ fires = [n \in Names |-> <<>>]
    /\ started = FALSE
    /\ outcomes = [n \in Names |-> <<>>]
    /\ late = 0
    /\ arg \in UntilArgs
    /\ ret = NotCalled
    /\ heap = Idle
    /\ main = Idle

\* crontab.next(from_time) is called
CallNext ==
    /\ ~ret.called
    /\ ret' = [called |-> TRUE, seconds |-> next(arg.crontab, arg.from_time)]
    /\ UNCHANGED <<core, outcomes, late, arg, heap, main>>

UntilNext == CallNext

SpecUntil == UntilInit /\ [][UntilNext]_vars

\* the instant next points at is due
LandsOnDue == DueAfter(arg.crontab, arg.from_time, ret.seconds)

\* C17 as stated: for every schedule and instant, next returns a strictly
\* positive number of seconds and the instant that many seconds after
\* from_time is due, also when nothing is due within 24 hours.
C17_PositiveAndDue ==
    ret.called => (ret.seconds > 0 /\ LandsOnDue)

\* C17 amended: next returns between 1 and 86400 seconds; the instant it
\* points at is due whenever some instant within 24 hours after from_time
\* is due; when none is, it returns exactly 86400 seconds and the instant
\* it points at is not due.
C17_PositiveAndDueWithinHorizon ==
    ret.called =>
        /\ ret.seconds \in 1..DaySeconds
        /\ IF \E s \in 1..DaySeconds : DueAfter(arg.crontab, arg.from_time, s)
           THEN LandsOnDue
           ELSE ret.seconds = DaySeconds /\ ~LandsOnDue

\* C17 witness: from_time is itself due, and next returned the 5 seconds to
\* the following due instant.
C17_Witness ==
    /\ ret.called
    /\ is_time_to_run(arg.crontab, DateTime(arg.from_time))
    /\ ret.seconds = 5
    /\ LandsOnDue

\* C27: next returns the least number of seconds d in 1..86400 for which
\* the instant d seconds after from_time is due: no instant before it is
\* due, and it is never 0, also when from_time itself is due; when no
\* instant of the 86400 is due it returns exactly 86400.
C27_LeastDueOffset ==
    ret.called =>
        /\ ret.seconds >= 1
        /\ \A s \in 1..(ret.seconds - 1) : ~DueAfter(arg.crontab, arg.from_time, s)
        /\ \/ ret.seconds <= DaySeconds /\ LandsOnDue
           \/ ret.seconds = DaySeconds

\* C27 witness: for the schedule of April 31, which no instant matches,
\* next returned 86400 seconds, and the instant it points at is not due.
C27_Witness ==
    /\ ret.called
    /\ arg.crontab.days = {31}
    /\ arg.crontab.months = {4}
    /\ ret.seconds = DaySeconds
    /\ ~LandsOnDue

(***************************************************************************)
(* ExtendedCronTab.is_time_to_run alone.  SpecDue draws a schedule and an  *)
(* instant of the year and applies the matcher to them.  arg holds the     *)
(* parsed schedule and the instant; ret what the matcher returned.         *)
(***************************************************************************)
\* the last day of the year, counted from 0
MaxDay == 364

\* "0 0 0 13 * 4": midnight of a 13th that is a Friday
FridayThirteenth ==
    <<"0", " ", "0", " ", "0", " ", "1", "3", " ", "*", " ", "4">>

\* "0 0 0 1 * 0": midnight of a first of the month that is a Monday
MondayFirst ==
    <<"0", " ", "0", " ", "0", " ", "1", " ", "*", " ", "0">>

\* "0 0 0 * * 6": midnight of every Sunday
Sundays ==
    <<"0", " ", "0", " ", "0", " ", "*", " ", "*", " ", "6">>

DueSchedules == {FridayThirteenth, MondayFirst, Sundays, Midnight, EverySecond}

\* midnight of every day of the year, and one second past it
DueInstants == {After(0, d * DaySeconds + sec) : d \in 0..MaxDay, sec \in {0, 1}}

DueArgs ==
    { [crontab |-> ExtendedCronTab(e), at |-> t] :
        e \in DueSchedules, t \in DueInstants }

NotTested == [called |-> FALSE, due |-> FALSE]

DueInit ==
    /\ scheduler = Initialize
    /\ clock = 0
    /\ result = "none"
    /\ fires = [n \in Names |-> <<>>]
    /\ started = FALSE
    /\ outcomes = [n \in Names |-> <<>>]
    /\ late = 0
    /\ arg \in DueArgs
    /\ ret = NotTested
    /\ heap = Idle
    /\ main = Idle

\* crontab.is_time_to_run(dt) is called
CallIsTimeToRun ==
    /\ ~ret.called
    /\ ret' = [called |-> TRUE, due |-> is_time_to_run(arg.crontab, DateTime(arg.at))]
    /\ UNCHANGED <<core, outcomes, late, arg, heap, main>>

DueNext == CallIsTimeToRun

SpecDue == DueInit /\ [][DueNext]_vars

\* the six numbers the matcher reads from a datetime, in the order of Bounds
DateFields(dt) ==
    <<dt.second, dt.minute, dt.hour, dt.day, dt.month, dt.weekday>>

\* C24: the matcher returns true exactly when each of the six numbers of
\* the instant is a member of the set of its field; a schedule is due only
\* when the day of the month and the weekday both match; and the weekday
\* the matcher reads, like its other five numbers, lies in the bound the
\* parser validates for the field.
C24_SixMemberships ==
    ret.called =>
        LET dt == DateTime(arg.at)
        IN  /\ ret.due = (\A k \in 1..6 : DateFields(dt)[k] \in Sets(arg.crontab)[k])
            /\ ret.due => (dt.day \in arg.crontab.days /\ dt.weekday \in arg.crontab.weekdays)
            /\ \A k \in 1..6 : DateFields(dt)[k] \in Bounds[k].lo..Bounds[k].hi

\* C24 witness: a schedule that restricts both the day of the month and the
\* weekday was tested at a midnight whose weekday matches and whose day
\* does not, and the matcher returned false.
C24_Witness ==
    /\ ret.called
    /\ ~ret.due
    /\ arg.crontab.days # 1..31
    /\ arg.crontab.weekdays # 0..6
    /\ DateTime(arg.at).weekday \in arg.crontab.weekdays
    /\ DateTime(arg.at).day \notin arg.crontab.days
    /\ DateTime(arg.at).second \in arg.crontab.seconds
    /\ DateTime(arg.at).hour \in arg.crontab.hours

(***************************************************************************)
(* A job over the turn of a minute.  SpecMinute starts one job, with a     *)
(* schedule of 5 fields or of 6 and a timezone label, at instant 0 and     *)
(* follows its loop as SpecRun does, polls running at the end of their     *)
(* pause or later, until a few seconds into the next minute.               *)
(***************************************************************************)
MinuteTicks == 60 * TicksPerSecond

\* the timezone labels callers pass
Zones == {req.tz : req \in Requests}

MinuteInit ==
    /\ \E e \in {EveryMinute, Midnight, HalfPast}, tz \in Zones :
          scheduler = start(register_job(Initialize, "ping", e, "cb1", tz).self).self
    /\ clock = 0
    /\ result = "returned"
    /\ fires = [n \in Names |-> <<>>]
    /\ started = TRUE
    /\ outcomes = [n \in Names |-> <<>>]
    /\ late = 0
    /\ arg = Idle
    /\ ret = Idle
    /\ heap = Idle
    /\ main = Idle

\* half a second passes
MinuteTick ==
    /\ clock < MinuteTicks + MaxRun
    /\ clock' = clock + 1
    /\ scheduler' = [scheduler EXCEPT !.jobs =
                        [n \in Registered |-> Elapse(Job(n))]]
    /\ UNCHANGED <<result, fires, started, aux>>

MinuteNext ==
    \/ \E i \in 1..MaxLoops, o \in Outcomes : RunPoll("ping", i, o)
    \/ \E i \in 1..MaxLoops : RunReturn("ping", i)
    \/ \E i \in 1..MaxLoops : RunRaise("ping", i)
    \/ MinuteTick

SpecMinute == MinuteInit /\ [][MinuteNext]_vars

\* C26: an expression of 5 fields gives the seconds {0} with has_seconds
\* false, and one of 6 fields has_seconds true; a running job whose
\* expression has 5 fields is invoked only at instants of second 0, and no
\* two of its invocations fall in the same minute.
C26_FiveFieldsSecondZero ==
    \A n \in Registered :
        LET fields == SplitWs(Job(n).cron_expression)
        IN  /\ Len(fields) = 6 => Job(n).crontab.has_seconds
            /\ Len(fields) = 5 =>
                  /\ Job(n).crontab.seconds = {0}
                  /\ ~Job(n).crontab.has_seconds
                  /\ \A j \in DOMAIN fires[n] :
                        DateTime(fires[n][j].at).second = 0
                  /\ \A j, k \in DOMAIN fires[n] :
                        j < k => fires[n][j].at \div MinuteTicks
                                    # fires[n][k].at \div MinuteTicks

\* C26 witness: the job with the expression "* * * * *" was invoked in
\* minute 0 and again in minute 1, there by a poll that ran half a second
\* into second 0.
C26_Witness ==
    \E n \in Registered :
        /\ Job(n).cron_expression = EveryMinute
        /\ Len(fires[n]) = 2
        /\ fires[n][1].at \div MinuteTicks = 0
        /\ fires[n][2].at = MinuteTicks + 1
        /\ clock > MinuteTicks + TicksPerSecond

\* C28: the timezone label has no effect on scheduling.  In every state of
\* a run, had the job been registered with another label, its schedule
\* would be the same, its poll at this clock reading would decide the same
\* and leave the same job but for the label, and so would start, stop and
\* the passing of time: two runs that differ in the label alone go through
\* the same states but for the label and invoke at the same instants.
C28_TimezoneNoEffect ==
    \A n \in Registered, tz \in Zones :
        LET job     == Job(n)
            other   == [job EXCEPT !.timezone = tz]
            As(j)   == [j EXCEPT !.timezone = tz]
        IN  /\ CronJob(job.name, job.cron_expression, job.callback, tz, job.oid).job
                  = As(CronJob(job.name, job.cron_expression, job.callback,
                               job.timezone, job.oid).job)
            /\ other.crontab = job.crontab
            /\ ShouldFire(other, clock) = ShouldFire(job, clock)
            /\ \A i \in DOMAIN job.loops, suspends \in BOOLEAN :
                  LoopPass(other, i, clock, suspends)
                     = As(LoopPass(job, i, clock, suspends))
            /\ CronJob_start(other) = As(CronJob_start(job))
            /\ CronJob_stop(other) = As(CronJob_stop(job))
            /\ Elapse(other) = As(Elapse(job))

\* C28 witness: the job registered with the label "Europe/Oslo" and the
\* schedule of every midnight was invoked at instant 0, midnight by the
\* clock the process reads and one hour past midnight in Oslo.
C28_Witness ==
    \E n \in Registered :
        /\ Job(n).timezone = "Europe/Oslo"
        /\ Job(n).cron_expression = Midnight
        /\ Len(fires[n]) = 1
        /\ DateTime(fires[n][1].at).hour = 0
        /\ DateTime(fires[n][1].at).minute = 0

(***************************************************************************)
(* The constructor.  SpecSingleton starts before the first TaskScheduler() *)
(* and follows the constructions and the calls made through the            *)
(* references they return.  heap.instance is the class attribute           *)
(* _instance (NoObject for None), heap.objects the TaskScheduler objects   *)
(* made so far, numbered in order, and heap.refs the references returned,  *)
(* each with the object it refers to and the state of that object when     *)
(* the constructor returned.                                               *)
(***************************************************************************)
NoObject == 0

MaxRefs == 2

NoHeap == [instance |-> NoObject, objects |-> <<>>, refs |-> <<>>]

\* mutant: every construction initializes the instance again
TaskScheduler_new_Reinitializes(h) ==
    IF h.instance = NoObject
    THEN [h EXCEPT !.objects = Append(@, Initialize),
                   !.instance = Len(h.objects) + 1]
    ELSE [h EXCEPT !.objects[h.instance] = Initialize]

\* TaskScheduler.__new__; the object returned is instance of the result
TaskScheduler_new(h) ==
    IF h.instance = NoObject
    THEN [h EXCEPT !.objects = Append(@, Initialize),
                   !.instance = Len(h.objects) + 1]
    ELSE h

\* the object reference r refers to
Target(r) == heap.objects[heap.refs[r].obj]

\* the heap with the object of reference r replaced
WithTarget(r, self) == [heap EXCEPT !.objects[heap.refs[r].obj] = self]

SingletonInit ==
    /\ scheduler = Initialize
    /\ clock = 0
    /\ result = "none"
    /\ fires = [n \in Names |-> <<>>]
    /\ started = FALSE
    /\ outcomes = [n \in Names |-> <<>>]
    /\ late = 0
    /\ arg = Idle
    /\ ret = Idle
    /\ heap = NoHeap
    /\ main = Idle

\* TaskScheduler() is called and its result kept
Construct ==
    /\ Len(heap.refs) < MaxRefs
    /\ heap' = LET h == TaskScheduler_new(heap)
               IN  [h EXCEPT !.refs = Append(@, [obj |-> h.instance,
                                                 seen |-> h.objects[h.instance]])]
    /\ UNCHANGED <<core, outcomes, late, arg, ret, main>>

\* register_job is called through reference r
RegisterVia(r, name, req) ==
    /\ r \in DOMAIN heap.refs
    /\ heap' = WithTarget(r, register_job(Target(r), name, req.expr, req.cb, req.tz).self)
    /\ UNCHANGED <<core, outcomes, late, arg, ret, main>>

\* start is called through reference r
StartVia(r) ==
    /\ r \in DOMAIN heap.refs
    /\ \A n \in DOMAIN Target(r).jobs : CanStart(Target(r).jobs[n])
    /\ heap' = WithTarget(r, start(Target(r)).self)
    /\ UNCHANGED <<core, outcomes, late, arg, ret, main>>

\* stop is called through reference r
StopVia(r) ==
    /\ r \in DOMAIN heap.refs
    /\ heap' = WithTarget(r, stop(Target(r)).self)
    /\ UNCHANGED <<core, outcomes, late, arg, ret, main>>

SingletonNext ==
    \/ Construct
    \/ \E r \in 1..MaxRefs, name \in Names, req \in Requests : RegisterVia(r, name, req)
    \/ \E r \in 1..MaxRefs : StartVia(r)
    \/ \E r \in 1..MaxRefs : StopVia(r)

SpecSingleton == SingletonInit /\ [][SingletonNext]_vars

\* C18: there is one TaskScheduler object per process.  Every reference a
\* construction returns refers to the object of _instance, so that what is
\* done through one reference is seen through every other; and a
\* construction after the first returns that object as it is, its
\* registry, its jobs and its running flag unchanged.
C18_SingleInstance ==
    [][ /\ Len(heap'.objects) <= 1
        /\ \A r \in DOMAIN heap'.refs : heap'.refs[r].obj = heap'.instance
        /\ (heap.instance # NoObject /\ Len(heap'.refs) = Len(heap.refs) + 1) =>
              /\ heap'.instance = heap.instance
              /\ heap'.objects = heap.objects
              /\ heap'.refs[Len(heap'.refs)].seen = heap.objects[heap.instance]
        /\ \A r \in DOMAIN heap.refs : heap'.refs[r].obj = heap.refs[r].obj ]_vars

\* C18 witness: the second construction returned the scheduler running with
\* one job registered and running, and a job registered since is in the
\* registry that both references refer to.
C18_Witness ==
    /\ Len(heap.refs) = 2
    /\ heap.refs[2].seen.running
    /\ \E n \in DOMAIN heap.refs[2].seen.jobs :
          /\ DOMAIN heap.refs[2].seen.jobs = {n}
          /\ heap.refs[2].seen.jobs[n].running
          /\ Target(1).jobs[n] = heap.refs[2].seen.jobs[n]
    /\ DOMAIN Target(1).jobs = Names
    /\ Target(2) = Target(1)

(***************************************************************************)
(* The main routine.  SpecMain follows the coroutine main() of src/main.py *)
(* from its first statement: the database connection, which may fail and   *)
(* leave db_conn unbound, setup_scheduler() and scheduler.start(), the     *)
(* API thread, the signal handlers, the loop that sleeps a second at a     *)
(* time until shutdown_flag is set, scheduler.stop() and db_conn.close().  *)
(* SIGINT and SIGTERM arrive at any moment: signal_handler sets the flag   *)
(* once it is installed, and before that the signal ends the process.      *)
(* The registry holds the one job setup_scheduler registers, under the     *)
(* name "ping" here.  The loops of the job are tasks of the event loop     *)
(* main() runs on, so they step only while main() is suspended in          *)
(* asyncio.sleep, and asyncio.run delivers the cancellations still pending *)
(* once main() has returned.  The event loop resumes every coroutine that  *)
(* is ready and the callback returns (its request has a timeout), hence    *)
(* the weak fairness of the steps of main().                               *)
(***************************************************************************)
MainEntry ==
    [pc |-> "connect", shutdown_flag |-> FALSE, db_conn |-> "unbound",
     api_thread |-> FALSE, handlers |-> FALSE, sig |-> "none"]

\* scheduler/app.py: the scheduler with the job of the application
setup_scheduler ==
    register_job(Initialize, "ping", EveryFive, "background_task", "UTC").self

signal_handler(m, sig) == [m EXCEPT !.shutdown_flag = TRUE, !.sig = sig]

MainInit ==
    /\ scheduler = Initialize
    /\ clock = 0
    /\ result = "none"
    /\ fires = [n \in Names |-> <<>>]
    /\ started = FALSE
    /\ outcomes = [n \in Names |-> <<>>]
    /\ late = 0
    /\ arg = Idle
    /\ ret = Idle
    /\ heap = Idle
    /\ main = MainEntry

\* db_conn = MongoDBConnection(), which returns or raises
MainConnect(ok) ==
    /\ main.pc = "connect"
    /\ main' = [main EXCEPT !.pc = "setup",
                            !.db_conn = IF ok THEN "open" ELSE "unbound"]
    /\ UNCHANGED <<core, outcomes, late, arg, ret, heap>>

\* scheduler = await setup_scheduler()
MainSetup ==
    /\ main.pc = "setup"
    /\ scheduler' = setup_scheduler
    /\ main' = [main EXCEPT !.pc = "start"]
    /\ UNCHANGED <<clock, result, fires, started, outcomes, late, arg, ret, heap>>

\* scheduler.start()
MainStartScheduler ==
    /\ main.pc = "start"
    /\ scheduler' = start(scheduler).self
    /\ result' = start(scheduler).result
    /\ started' = TRUE
    /\ main' = [main EXCEPT !.pc = "thread"]
    /\ UNCHANGED <<clock, fires, outcomes, late, arg, ret, heap>>

\* api_thread.start()
MainThread ==
    /\ main.pc = "thread"
    /\ main' = [main EXCEPT !.pc = "signals", !.api_thread = TRUE]
    /\ UNCHANGED <<core, outcomes, late, arg, ret, heap>>

\* signal.signal(sig, signal_handler) for SIGINT and SIGTERM
MainSignals ==
    /\ main.pc = "signals"
    /\ main' = [main EXCEPT !.pc = "loop", !.handlers = TRUE]
    /\ UNCHANGED <<core, outcomes, late, arg, ret, heap>>

\* the test of while not shutdown_flag
MainLoop ==
    /\ main.pc = "loop"
    /\ main' = [main EXCEPT !.pc = IF main.shutdown_flag THEN "stop" ELSE "sleep"]
    /\ UNCHANGED <<core, outcomes, late, arg, ret, heap>>

\* await asyncio.sleep(1) returns
MainWake ==
    /\ main.pc = "sleep"
    /\ main' = [main EXCEPT !.pc = "loop"]
    /\ UNCHANGED <<core, outcomes, late, arg, ret, heap>>

\* mutant: the shutdown goes on to the database without scheduler.stop()
MainStop_Skipped ==
    /\ main.pc = "stop"
    /\ main' = [main EXCEPT !.pc = "close"]
    /\ UNCHANGED <<core, outcomes, late, arg, ret, heap>>

\* scheduler.stop()
MainStop ==
    /\ main.pc = "stop"
    /\ scheduler' = stop(scheduler).self
    /\ result' = stop(scheduler).result
    /\ started' = FALSE
    /\ main' = [main EXCEPT !.pc = "close"]
    /\ UNCHANGED <<clock, fires, outcomes, late, arg, ret, heap>>

\* if 'db_conn' in locals(): db_conn.close(), and main() returns
MainClose ==
    /\ main.pc = "close"
    /\ main' = [main EXCEPT !.pc = "done",
                            !.db_conn = IF @ = "open" THEN "closed" ELSE @]
    /\ UNCHANGED <<core, outcomes, late, arg, ret, heap>>

\* the process receives SIGINT or SIGTERM
Signal(sig) ==
    /\ main.pc \notin {"killed", "done"}
    /\ main' = IF main.handlers
               THEN signal_handler(main, sig)
               ELSE [main EXCEPT !.pc = "killed"]
    /\ UNCHANGED <<core, outcomes, late, arg, ret, heap>>

\* a task of the event loop steps while main() is suspended
MainJobStep ==
    \/ /\ main.pc = "sleep"
       /\ \E i \in 1..MaxLoops, suspends \in BOOLEAN : Poll("ping", i, suspends)
    \/ /\ main.pc = "sleep"
       /\ \E i \in 1..MaxLoops : CallbackReturn("ping", i)
    \/ /\ main.pc = "done"
       /\ \E i \in 1..MaxLoops : DeliverCancel("ping", i)

\* half a second passes
MainTick ==
    /\ main.pc # "killed"
    /\ Tick

MainNext ==
    \/ \E ok \in BOOLEAN : MainConnect(ok)
    \/ MainSetup
    \/ MainStartScheduler
    \/ MainThread
    \/ MainSignals
    \/ MainLoop
    \/ MainWake
    \/ MainStop
    \/ MainClose
    \/ \E sig \in {"SIGINT", "SIGTERM"} : Signal(sig)
    \/ MainJobStep
    \/ MainTick

MainFair ==
    /\ WF_vars(MainLoop)
    /\ WF_vars(MainWake)
    /\ WF_vars(MainStop)
    /\ WF_vars(MainClose)

SpecMain == MainInit /\ [][MainNext]_vars /\ MainFair

\* C32: main() launches the API thread only once the scheduler is set up
\* and started with its job running; once signal_handler has set
\* shutdown_flag, main() eventually leaves its loop and returns; it closes
\* the database connection only after scheduler.stop(), and when it has
\* returned the scheduler and every job are stopped and no connection is
\* open.
C32_GracefulShutdown ==
    /\ [][ /\ (~main.api_thread /\ main'.api_thread) =>
                 /\ started /\ scheduler.running
                 /\ Registered # {}
                 /\ \A n \in Registered : Job(n).running
           /\ (main.db_conn = "open" /\ main'.db_conn = "closed") =>
                 (~started /\ AllStopped)
           /\ (main.pc = "loop" /\ main'.pc = "stop") => main.shutdown_flag
           /\ (main'.shutdown_flag /\ ~main.shutdown_flag) =>
                 (main.handlers /\ main.api_thread /\ main'.sig # "none") ]_vars
    /\ [](main.pc = "done" => (AllStopped /\ main.db_conn # "open"))
    /\ (main.shutdown_flag ~> (main.pc = "done" /\ AllStopped))

\* C32 witness: main() has returned after a signal, having closed the
\* connection it had opened, and the job, which had fired, is stopped with
\* no loop left.
C32_Witness ==
    /\ main.pc = "done"
    /\ main.shutdown_flag
    /\ main.sig = "SIGTERM"
    /\ main.db_conn = "closed"
    /\ main.api_thread
    /\ AllStopped
    /\ "ping" \in Registered
    /\ fires["ping"] # <<>>
    /\ Job("ping").loops = <<>>

====
